---- MODULE Spec2Model ----
(***************************************************************************)
(* The batch execution engine of the RunningHub AI client: the effect of   *)
(* the StepRunning component (shared queue cursor, counters, workers, the  *)
(* completion summary), its cancel handler, and the part of App that       *)
(* mounts and unmounts it.                                                 *)
(*                                                                         *)
(* JavaScript runs one callback at a time, so one action is the code that  *)
(* runs between two suspension points (await) of one async function.       *)
(***************************************************************************)
EXTENDS Integers, Sequences, FiniteSets

\* ------------------------------------------------------------------ bounds
MaxTasks == 3
MaxPool == 2
MaxConcurrency == 2
MaxWorkers == 3
MaxFiles == 1
MaxCancels == 1
MaxCoins == 1
MaxBalanceTasks == 2
MaxRetryTasks == 2
MaxOrphans == 2
MaxScriptTasks == 2
MaxWaits == 3

\* Entries of a node_errors payload and errors per entry.
MaxNodes == 2
MaxErrors == 2

\* Rows of a batch list whose arrays are followed, and NodeInfo entries per
\* row.
MaxRows == 2
MaxFields == 2

\* ------------------------------------------------------------------ inputs
\* An API key: "" is the empty key of the default settings entry.
Keys == {"", "A"}

ApiKeyConfig == [apiKey : Keys, concurrency : 1..MaxConcurrency]

\* One worker more than the entry allows.
ConcurrencyPlusOne(config) == config.concurrency + 1

\* config.concurrency || 1
Concurrency(config) == IF config.concurrency = 0 THEN 1 ELSE config.concurrency

\* The pool entry of every worker the effect spawns, in spawn order: entries
\* with an empty apiKey are skipped.
RECURSIVE SlotsFrom(_, _)
SlotsFrom(p, i) ==
    IF i > Len(p) THEN <<>>
    ELSE (IF p[i].apiKey = "" THEN <<>>
          ELSE [k \in 1..Concurrency(p[i]) |-> i]) \o SlotsFrom(p, i + 1)

\* The concurrency of an entry with an empty key is never read: it is 1, as
\* in the default settings entry.
PoolOk(p) ==
    /\ \A i \in 1..Len(p) : p[i].apiKey = "" => p[i].concurrency = 1
    /\ Len(SlotsFrom(p, 1)) <= MaxWorkers

Pools ==
    {p \in UNION {[1..n -> ApiKeyConfig] : n \in 1..MaxPool} : PoolOk(p)}

\* Pools over two distinct keys and the empty key, one worker per entry.
BalanceKeys == Keys \cup {"B"}

\* Key names are interchangeable: "B" is the key that differs from an
\* earlier "A".
BalancePools ==
    {p \in UNION {[1..n -> [apiKey : BalanceKeys, concurrency : {1}]] :
                      n \in 1..MaxPool} :
        \A i \in 1..Len(p) :
            p[i].apiKey = "B" => \E j \in 1..(i - 1) : p[j].apiKey = "A"}

\* Results of the remote calls, by what the worker does with them.
SubmitResults == {"ok", "nodeErrors", "badPromptTips", "error"}

PollResults ==
    {"success", "running", "queued", "failed805", "failedOther",
     "emptySuccess", "failedFetchMsg", "fetchError", "httpError"}

Null == -1

VARIABLES
    totalTasks,        \* batchList.length
    apiConfigs,        \* the credential pool passed by App
    autoSaveEnabled,   \* autoSaveConfig.enabled
    runType,           \* App: "batch" | "result" | "none"
    mounted,           \* StepRunning is mounted
    hasStartedRef,     \* hasStartedRef.current
    status,            \* StepRunning status state
    currentBatchIndex, \* StepRunning state as rendered at the last cancel call
    active,            \* the effect's active flag
    taskLock,          \* taskLock.locked
    nextTaskIndex,
    completedCount,
    failedCountLocal,
    failedTasksLocal,  \* sequence of batchIndex values
    spawned,           \* number of runWorker calls the effect has made
    pc,                \* per worker: the await it is suspended at
    task,              \* per worker: taskIndex of its current iteration
    filesLeft,         \* per worker: entries of filesToUpload not yet uploaded
    finalizers,        \* pending Promise.all chains of checkAllDone
    completeCalls,     \* calls of onBatchComplete made so far
    cancelInvoked,     \* calls of cancelWithSummary made so far
    cancelPending,     \* handleBatchCancel calls awaiting getAccountInfo
    cancelSummaries,   \* summaries passed to onBatchCancel
    handedTo,          \* per index: the workers getNextTaskIndex returned it to
    outcomes,          \* per index: terminal reports recorded for it
    unmatchedFiles,    \* per worker: pendingFiles entries of its job that
                       \* the key test of runWorker does not select
    initialCoinsMap,   \* per distinct key: the starting balance, or Null
    initialSettled,    \* keys whose initial getAccountInfo call has settled
    startCoins,        \* StepRunning state: starting balance of the first key
    batchResult,       \* App state: the summary handed to handleBatchComplete
    activeBatchList,   \* App state: the job list of the run, as row numbers
                       \* of the batch list the user edited
    remoteScript,      \* per index: what the remote side answers for the job
    answered,          \* per index: poll answers received so far (counted
                       \* for scripted jobs)
    orphanFinalizers,  \* pending checkAllDone chains of replaced runs
    single,            \* runSingleTask: the await it is suspended at
    nodeErrors,        \* promptTips.node_errors of a submit answer
    errorDetails,      \* what is shown for the job that had node errors
    heap,              \* the NodeInfo arrays in memory, by object identity
    pendingFiles,      \* the keys of the pendingFiles prop, as <<row, field>>
    nodesToSubmit,     \* per worker: the array it uploads into and submits
    copyNext,          \* nextTaskIndex of the run that uploads
    payloads,          \* per row: the nodeInfoList sent by submitTask
    strictOld          \* the workers of an effect setup that was cleaned up
                       \* with the component still mounted, as they then were

vars ==
    <<totalTasks, apiConfigs, autoSaveEnabled, runType, mounted,
      hasStartedRef, status,
      currentBatchIndex, active, taskLock, nextTaskIndex, completedCount,
      failedCountLocal, failedTasksLocal, spawned, pc, task, filesLeft,
      finalizers, completeCalls, cancelInvoked, cancelPending,
      cancelSummaries, handedTo, outcomes, unmatchedFiles, initialCoinsMap,
      initialSettled, startCoins, batchResult, activeBatchList,
      remoteScript, answered, orphanFinalizers, single, nodeErrors,
      errorDetails, heap, pendingFiles, nodesToSubmit, copyNext, payloads,
      strictOld>>

inputs == <<totalTasks, apiConfigs, autoSaveEnabled, activeBatchList, remoteScript>>

cancelVars == <<cancelInvoked, cancelPending, cancelSummaries>>

balanceVars == <<initialCoinsMap, initialSettled, startCoins>>

\* State of the other entry points: runs replaced by a retry, the single
\* task mode.
\* The state used to follow node error payloads and the arrays of a job.
detailVars ==
    <<nodeErrors, errorDetails, heap, pendingFiles, nodesToSubmit, copyNext,
      payloads>>

sideVars == <<orphanFinalizers, single, detailVars, strictOld>>

\* The shared state of the batch workers.
workerVars ==
    <<currentBatchIndex, taskLock, nextTaskIndex, completedCount,
      failedCountLocal, failedTasksLocal, spawned, pc, task, filesLeft,
      unmatchedFiles, finalizers, completeCalls, handedTo, outcomes>>

\* ------------------------------------------------------------ worker spawn
WorkerSlots == SlotsFrom(apiConfigs, 1)

NumWorkers == Len(WorkerSlots)

Workers == 1..NumWorkers

\* The effect body has run to its end: every runWorker call was made.
EffectDone == (hasStartedRef \/ ~mounted) /\ spawned = NumWorkers

\* ----------------------------------------------------------------- balances
\* uniqueKeys: the distinct non-empty keys of the pool.
UniqueKeys == {apiConfigs[i].apiKey : i \in DOMAIN apiConfigs} \ {""}

\* apiConfigs[0]?.apiKey || ''
primaryApiKey == apiConfigs[1].apiKey

\* parseFloat(info.remainCoins), in whole coins.
Coins == 0..MaxCoins

\* A getAccountInfo call returns a balance or throws (Null).
BalanceAnswers == Coins \cup {Null}

Max(a, b) == IF a >= b THEN a ELSE b

\* A credential for which the summary has no consumption line.
NoReport == [reported |-> FALSE, start |-> 0, final |-> 0, consumed |-> 0]

Report(start, final, consumed) ==
    [reported |-> TRUE, start |-> start, final |-> final, consumed |-> consumed]

\* checkAllDone: Math.max(0, start - final)
CompletionConsumed(start, final) == Max(0, start - final)

\* handleBatchCancel: startCoins - finalCoins
CancelConsumed(start, final) == start - final

\* A line is written for every key whose final balance was obtained.
CompletionReportsWithoutStart(finals) ==
    [k \in UniqueKeys |->
        IF finals[k] # Null
        THEN Report(initialCoinsMap[k], finals[k],
                    CompletionConsumed(initialCoinsMap[k], finals[k]))
        ELSE NoReport]

\* The consumption lines of the completion summary, for the answers the
\* final balance queries gave.
CompletionReports(finals) ==
    [k \in UniqueKeys |->
        IF finals[k] # Null /\ initialCoinsMap[k] # Null
        THEN Report(initialCoinsMap[k], finals[k],
                    CompletionConsumed(initialCoinsMap[k], finals[k]))
        ELSE NoReport]

\* The consumption line of the cancellation summary.
CancelReports(start, final) ==
    [k \in UniqueKeys |->
        IF k = primaryApiKey /\ final # Null /\ start # Null
        THEN Report(start, final, CancelConsumed(start, final))
        ELSE NoReport]

\* App before any summary was handed to handleBatchComplete. ranOn is
\* history: the job list of the run that produced the summary.
NoResult ==
    [kind |-> "none", reports |-> [k \in UniqueKeys |-> NoReport],
     unavailable |-> FALSE, failedTasks |-> <<>>, ranOn |-> <<>>]

\* ------------------------------------------------------------------- queue
\* The caller finds the lock held while the last index is still to be
\* handed out, and gets null.
getNextTaskIndexLocked ==
    IF taskLock \/ nextTaskIndex = totalTasks - 1 THEN Null
    ELSE IF nextTaskIndex < totalTasks THEN nextTaskIndex ELSE Null

\* The value getNextTaskIndex returns.
getNextTaskIndex ==
    IF taskLock THEN Null
    ELSE IF nextTaskIndex < totalTasks THEN nextTaskIndex ELSE Null

\* The cursor is read but not advanced.
CursorStuck == nextTaskIndex

\* nextTaskIndex after a call of getNextTaskIndex (nextTaskIndex++).
CursorAfter ==
    IF taskLock THEN nextTaskIndex
    ELSE IF nextTaskIndex < totalTasks THEN nextTaskIndex + 1 ELSE nextTaskIndex

\* --------------------------------------------------------- response classes
\* A response with code 0 and no outputs is taken as still running.
PollThrowsUnlessCodeZero(res) ==
    res \notin {"success", "running", "queued", "emptySuccess"}

\* The poll response makes the worker throw (branches 805 and else, or the
\* call itself failed).
PollThrows(res) == res \notin {"success", "running", "queued"}

\* Whether the message of the thrown error contains "fetch".
ErrMessage(res) ==
    IF res \in {"failedFetchMsg", "fetchError"} THEN "hasFetch" ELSE "plain"

\* The inner catch of the poll loop passes the error on to the outer catch.
InnerCatchRethrows(m) == m # "hasFetch"

\* -------------------------------------------------------- shared fragments
SetWorker(w, p, t, f) ==
    /\ pc' = [pc EXCEPT ![w] = p]
    /\ task' = [task EXCEPT ![w] = t]
    /\ filesLeft' = [filesLeft EXCEPT ![w] = f]
    /\ unmatchedFiles' =
          [unmatchedFiles EXCEPT ![w] = IF p \in {"upload", "submit"} THEN @ ELSE 0]

\* checkAllDone, called with the counters as they are at the call.
checkAllDone(cc, fc) ==
    IF cc + fc >= totalTasks
    THEN /\ status' = "SUCCESS"
         /\ finalizers' = finalizers + 1
    ELSE UNCHANGED <<status, finalizers>>

\* The failure is recorded, then the worker returns instead of going on.
CatchFailAborts(w) ==
    IF ~active
    THEN /\ SetWorker(w, "done", Null, 0)
         /\ UNCHANGED <<failedCountLocal, failedTasksLocal, outcomes, status,
                        finalizers>>
    ELSE /\ failedCountLocal' = failedCountLocal + 1
         /\ failedTasksLocal' = Append(failedTasksLocal, task[w])
         /\ outcomes' = [outcomes EXCEPT ![task[w]] = Append(@, "fail")]
         /\ checkAllDone(completedCount, failedCountLocal + 1)
         /\ SetWorker(w, "done", Null, 0)

\* The failure is recorded by replacing the failed-job list instead of
\* pushing onto it: the entries of other workers are lost.
CatchFailOverwrites(w) ==
    IF ~active
    THEN /\ SetWorker(w, "done", Null, 0)
         /\ UNCHANGED <<failedCountLocal, failedTasksLocal, outcomes, status,
                        finalizers>>
    ELSE /\ failedCountLocal' = failedCountLocal + 1
         /\ failedTasksLocal' = <<task[w]>>
         /\ outcomes' = [outcomes EXCEPT ![task[w]] = Append(@, "fail")]
         /\ checkAllDone(completedCount, failedCountLocal + 1)
         /\ SetWorker(w, "delay", Null, 0)

\* The outer catch of runWorker, then the 500 ms pause.
CatchFail(w) ==
    IF ~active
    THEN /\ SetWorker(w, "done", Null, 0)
         /\ UNCHANGED <<failedCountLocal, failedTasksLocal, outcomes, status,
                        finalizers>>
    ELSE /\ failedCountLocal' = failedCountLocal + 1
         /\ failedTasksLocal' = Append(failedTasksLocal, task[w])
         /\ outcomes' = [outcomes EXCEPT ![task[w]] = Append(@, "fail")]
         /\ checkAllDone(completedCount, failedCountLocal + 1)
         /\ SetWorker(w, "delay", Null, 0)

\* ------------------------------------------------------------ pending files
\* The first field of a pendingFiles key: the decimal batch index the engine
\* parses, or the _taskId of the row ("task-...") that BatchSettingsModal
\* writes.
KeyForms == {"index", "taskId"}

NaN == -2

\* parseInt(batchIdx) for the first field of a key registered for row i.
ParseInt(form, i) == IF form = "index" THEN i ELSE NaN

\* The pendingFiles entries registered for one row of the batch list the
\* user edited, by the form of their key.
PendingEntries == UNION {[1..n -> KeyForms] : n \in 0..MaxFiles}

RECURSIVE EntriesFrom(_, _, _)
EntriesFrom(entries, idx, k) ==
    IF k > Len(entries) THEN <<>>
    ELSE (IF ParseInt(entries[k], activeBatchList[idx + 1]) = idx
          THEN <<entries[k]>> ELSE <<>>)
            \o EntriesFrom(entries, idx, k + 1)

\* filesToUpload: the entries of the job's row whose parsed first field
\* equals taskIndex, the position of the job in the list of the run.
filesToUpload(entries, idx) == EntriesFrom(entries, idx, 1)

\* One pass of while (active) up to its first await: claim an index, collect
\* the pending files of that index, start the first upload or the submit.
LoopIteration(w) ==
    IF ~active
    THEN /\ SetWorker(w, "done", Null, 0)
         /\ UNCHANGED <<nextTaskIndex, handedTo, status>>
    ELSE LET idx == getNextTaskIndex IN
         /\ nextTaskIndex' = CursorAfter
         /\ IF idx = Null
            THEN /\ SetWorker(w, "done", Null, 0)
                 /\ UNCHANGED <<handedTo, status>>
            ELSE /\ handedTo' = [handedTo EXCEPT ![idx] = Append(@, w)]
                 /\ \E entries \in PendingEntries :
                      LET f == Len(filesToUpload(entries, idx)) IN
                        /\ pc' = [pc EXCEPT ![w] = IF f > 0 THEN "upload" ELSE "submit"]
                        /\ task' = [task EXCEPT ![w] = idx]
                        /\ filesLeft' = [filesLeft EXCEPT ![w] = f]
                        /\ unmatchedFiles' =
                              [unmatchedFiles EXCEPT ![w] = Len(entries) - f]
                        /\ status' = IF f = 0 THEN "RUNNING" ELSE status

\* ------------------------------------------------------------------- Init
\* The state of App and of a StepRunning component just mounted for the
\* batch (totalTasks, apiConfigs).
Mounted ==
    /\ autoSaveEnabled \in BOOLEAN
    /\ mounted = TRUE
    /\ hasStartedRef = FALSE
    /\ status = "INIT"
    /\ currentBatchIndex = 0
    /\ active = TRUE
    /\ taskLock = FALSE
    /\ nextTaskIndex = 0
    /\ completedCount = 0
    /\ failedCountLocal = 0
    /\ failedTasksLocal = <<>>
    /\ spawned = 0
    /\ pc = [w \in Workers |-> "init"]
    /\ task = [w \in Workers |-> Null]
    /\ filesLeft = [w \in Workers |-> 0]
    /\ finalizers = 0
    /\ completeCalls = 0
    /\ cancelInvoked = 0
    /\ cancelPending = <<>>
    /\ cancelSummaries = <<>>
    /\ handedTo = [i \in 0..(totalTasks - 1) |-> <<>>]
    /\ outcomes = [i \in 0..(totalTasks - 1) |-> <<>>]
    /\ unmatchedFiles = [w \in Workers |-> 0]
    /\ initialCoinsMap = [k \in UniqueKeys |-> Null]
    /\ initialSettled = {}
    /\ startCoins = Null
    /\ batchResult = NoResult

\* The rows of the batch list the user edited, all of them to be run.
OriginalList(n) == [k \in 1..n |-> k - 1]

\* Nothing is left of an earlier run, the remote side follows no script.
\* No node error payload and no job array is followed.
NoDetails ==
    /\ nodeErrors = <<>>
    /\ errorDetails = <<>>
    /\ heap = <<>>
    /\ pendingFiles = {}
    /\ nodesToSubmit = <<>>
    /\ copyNext = 0
    /\ payloads = <<>>

FirstRun ==
    /\ runType = "batch"
    /\ activeBatchList = OriginalList(totalTasks)
    /\ remoteScript = <<>>
    /\ answered = <<>>
    /\ orphanFinalizers = <<>>
    /\ single = "none"
    /\ strictOld = <<>>
    /\ NoDetails

Init ==
    /\ totalTasks \in 1..MaxTasks
    /\ apiConfigs \in Pools
    /\ Mounted
    /\ FirstRun

BalanceInit ==
    /\ totalTasks \in 1..MaxBalanceTasks
    /\ apiConfigs \in BalancePools
    /\ Mounted
    /\ FirstRun

\* ----------------------------------------------------------------- actions
\* The effect of the mounted component starts: the guard on hasStartedRef,
\* the shared state of the run.
EffectStart ==
    /\ mounted
    /\ ~hasStartedRef
    /\ hasStartedRef' = TRUE
    /\ active' = TRUE
    /\ UNCHANGED <<inputs, sideVars, answered, balanceVars, batchResult, runType, mounted, status, currentBatchIndex,
                   taskLock, nextTaskIndex, completedCount, failedCountLocal,
                   failedTasksLocal, spawned, pc, task, filesLeft, unmatchedFiles, finalizers,
                   completeCalls, cancelVars, handedTo, outcomes>>

\* The effect calls runWorker for the next slot; the call runs to its first
\* await before the effect goes on.
Spawn ==
    /\ mounted
    /\ hasStartedRef
    /\ spawned < NumWorkers
    /\ spawned' = spawned + 1
    /\ LoopIteration(spawned + 1)
    /\ UNCHANGED <<inputs, sideVars, answered, balanceVars, batchResult, runType, mounted, hasStartedRef, currentBatchIndex, active, taskLock,
                   completedCount, failedCountLocal, failedTasksLocal,
                   finalizers, completeCalls, cancelVars, outcomes>>

\* The upload error is dropped and the loop goes on to the next file.
UploadReturnIgnoresError(w, ok) ==
    /\ EffectDone
    /\ w \in Workers
    /\ pc[w] = "upload"
    /\ IF filesLeft[w] > 1
       THEN /\ SetWorker(w, "upload", task[w], filesLeft[w] - 1)
            /\ UNCHANGED status
       ELSE /\ SetWorker(w, "submit", task[w], 0)
            /\ status' = "RUNNING"
    /\ UNCHANGED <<failedCountLocal, failedTasksLocal, outcomes, finalizers>>
    /\ UNCHANGED <<inputs, sideVars, answered, balanceVars, batchResult, runType, mounted, hasStartedRef, currentBatchIndex, active, taskLock,
                   nextTaskIndex, completedCount, spawned, completeCalls,
                   cancelVars, handedTo>>

\* await uploadFile(apiKey, file) returns (ok) or throws: the next file is
\* uploaded or submitTask is called, or the error goes to the outer catch.
UploadReturnWith(w, ok) ==
    /\ EffectDone
    /\ w \in Workers
    /\ pc[w] = "upload"
    /\ IF ok
       THEN /\ IF filesLeft[w] > 1
               THEN /\ SetWorker(w, "upload", task[w], filesLeft[w] - 1)
                    /\ UNCHANGED status
               ELSE /\ SetWorker(w, "submit", task[w], 0)
                    /\ status' = "RUNNING"
            /\ UNCHANGED <<failedCountLocal, failedTasksLocal, outcomes,
                           finalizers>>
       ELSE CatchFail(w)
    /\ UNCHANGED <<inputs, sideVars, answered, balanceVars, batchResult, runType, mounted, hasStartedRef, currentBatchIndex, active, taskLock,
                   nextTaskIndex, completedCount, spawned, completeCalls,
                   cancelVars, handedTo>>

UploadReturn(w) == \E ok \in BOOLEAN : UploadReturnWith(w, ok)

\* No promptTips content makes the worker throw.
PromptTipsIgnored(res) == FALSE

\* The catch of the promptTips block swallows the error of JSON.parse, as
\* runSingleTask does.
PromptTipsParseErrorSwallowed(res) == res = "nodeErrors"

\* The promptTips block throws: node_errors is not empty, or JSON.parse
\* failed with a message other than 'Unexpected'.
PromptTipsThrows(res) == res \in {"nodeErrors", "badPromptTips"}

\* await submitTask(...) returns res or throws; promptTips is examined.
SubmitReturnWith(w, res) ==
    /\ EffectDone
    /\ w \in Workers
    /\ pc[w] = "submit"
    /\ IF res = "error" THEN CatchFail(w)
       ELSE IF ~active
       THEN /\ SetWorker(w, "done", Null, 0)
            /\ UNCHANGED <<failedCountLocal, failedTasksLocal, outcomes, status,
                           finalizers>>
       ELSE IF PromptTipsThrows(res) THEN CatchFail(w)
       ELSE /\ SetWorker(w, "poll", task[w], 0)
            /\ UNCHANGED <<failedCountLocal, failedTasksLocal, outcomes, status,
                           finalizers>>
    /\ UNCHANGED <<inputs, sideVars, answered, balanceVars, batchResult, runType, mounted, hasStartedRef, currentBatchIndex, active, taskLock,
                   nextTaskIndex, completedCount, spawned, completeCalls,
                   cancelVars, handedTo>>

SubmitReturn(w) == \E res \in SubmitResults : SubmitReturnWith(w, res)

\* The success branch counts the job but does not set taskComplete: the
\* poll loop goes on.
PollAnswerKeepsPolling(w, res) ==
    /\ EffectDone
    /\ w \in Workers
    /\ pc[w] = "poll"
    /\ IF res = "success"
       THEN /\ completedCount' = completedCount + 1
            /\ outcomes' = [outcomes EXCEPT ![task[w]] = Append(@, "ok")]
            /\ SetWorker(w, "pollwait", task[w], 0)
            /\ UNCHANGED <<status, finalizers>>
            /\ UNCHANGED <<failedCountLocal, failedTasksLocal>>
       ELSE IF PollThrows(res) /\ InnerCatchRethrows(ErrMessage(res))
       THEN /\ CatchFail(w)
            /\ UNCHANGED completedCount
       ELSE /\ SetWorker(w, "pollwait", task[w], 0)
            /\ UNCHANGED <<completedCount, failedCountLocal, failedTasksLocal,
                           outcomes, status, finalizers>>
    /\ UNCHANGED <<inputs, sideVars, balanceVars, batchResult, runType, mounted, hasStartedRef, currentBatchIndex, active, taskLock,
                   nextTaskIndex, spawned, completeCalls, cancelVars, handedTo>>

\* await queryTaskOutputs(apiKey, taskId) returns res or throws: what the
\* worker does with it.
PollAnswer(w, res) ==
    /\ EffectDone
    /\ w \in Workers
    /\ pc[w] = "poll"
    /\ IF res = "success"
       THEN /\ completedCount' = completedCount + 1
            /\ outcomes' = [outcomes EXCEPT ![task[w]] = Append(@, "ok")]
            /\ IF autoSaveEnabled
               THEN /\ SetWorker(w, "decode", task[w], 0)
                    /\ UNCHANGED <<status, finalizers>>
               ELSE /\ checkAllDone(completedCount + 1, failedCountLocal)
                    /\ SetWorker(w, "delay", Null, 0)
            /\ UNCHANGED <<failedCountLocal, failedTasksLocal>>
       ELSE IF PollThrows(res) /\ InnerCatchRethrows(ErrMessage(res))
       THEN /\ CatchFail(w)
            /\ UNCHANGED completedCount
       ELSE /\ SetWorker(w, "pollwait", task[w], 0)
            /\ UNCHANGED <<completedCount, failedCountLocal, failedTasksLocal,
                           outcomes, status, finalizers>>
    /\ UNCHANGED <<inputs, sideVars, balanceVars, batchResult, runType, mounted, hasStartedRef, currentBatchIndex, active, taskLock,
                   nextTaskIndex, spawned, completeCalls, cancelVars, handedTo>>

PollReturnWith(w, res) == PollAnswer(w, res) /\ UNCHANGED answered

PollReturn(w) == \E res \in PollResults : PollReturnWith(w, res)

\* The 3 s timer of the poll loop fires: the loop condition is tested again.
PollWaitReturn(w) ==
    /\ EffectDone
    /\ w \in Workers
    /\ pc[w] = "pollwait"
    /\ IF active
       THEN /\ SetWorker(w, "poll", task[w], 0)
            /\ UNCHANGED <<status, finalizers>>
       ELSE /\ checkAllDone(completedCount, failedCountLocal)
            /\ SetWorker(w, "delay", Null, 0)
    /\ UNCHANGED <<inputs, sideVars, answered, balanceVars, batchResult, runType, mounted, hasStartedRef, currentBatchIndex, active, taskLock,
                   nextTaskIndex, completedCount, failedCountLocal,
                   failedTasksLocal, spawned, completeCalls, cancelVars,
                   handedTo, outcomes>>

\* await processOutputsWithDecode(...) returns (it catches its own errors).
DecodeReturn(w) ==
    /\ EffectDone
    /\ w \in Workers
    /\ pc[w] = "decode"
    /\ SetWorker(w, "save", task[w], 0)
    /\ UNCHANGED <<inputs, sideVars, answered, balanceVars, batchResult, runType, mounted, hasStartedRef, status, currentBatchIndex, active,
                   taskLock, nextTaskIndex, completedCount, failedCountLocal,
                   failedTasksLocal, spawned, finalizers, completeCalls,
                   cancelVars, handedTo, outcomes>>

\* A failed save reaches the outer catch instead of being logged.
SaveReturnThrows(w) ==
    /\ EffectDone
    /\ w \in Workers
    /\ pc[w] = "save"
    /\ \E ok \in BOOLEAN :
        IF ok
        THEN /\ checkAllDone(completedCount, failedCountLocal)
             /\ SetWorker(w, "delay", Null, 0)
             /\ UNCHANGED <<failedCountLocal, failedTasksLocal, outcomes>>
        ELSE CatchFail(w)
    /\ UNCHANGED <<inputs, sideVars, answered, balanceVars, batchResult, runType, mounted, hasStartedRef, currentBatchIndex, active, taskLock,
                   nextTaskIndex, completedCount, spawned, completeCalls,
                   cancelVars, handedTo>>

\* await saveMultipleFiles(...) returns or throws (logged); the poll loop
\* ends on taskComplete and checkAllDone is called.
SaveReturn(w) ==
    /\ EffectDone
    /\ w \in Workers
    /\ pc[w] = "save"
    /\ \E ok \in BOOLEAN :
        /\ checkAllDone(completedCount, failedCountLocal)
        /\ SetWorker(w, "delay", Null, 0)
    /\ UNCHANGED <<inputs, sideVars, answered, balanceVars, batchResult, runType, mounted, hasStartedRef, currentBatchIndex, active, taskLock,
                   nextTaskIndex, completedCount, failedCountLocal,
                   failedTasksLocal, spawned, completeCalls, cancelVars,
                   handedTo, outcomes>>

\* The 500 ms pause ends: next pass of while (active).
DelayReturn(w) ==
    /\ EffectDone
    /\ w \in Workers
    /\ pc[w] = "delay"
    /\ LoopIteration(w)
    /\ UNCHANGED <<inputs, sideVars, answered, balanceVars, batchResult, runType, mounted, hasStartedRef, currentBatchIndex, active, taskLock,
                   completedCount, failedCountLocal, failedTasksLocal, spawned,
                   finalizers, completeCalls, cancelVars, outcomes>>

\* The balance queries of one checkAllDone call have settled with the
\* answers finals: its then callback builds the consumption lines and calls
\* onBatchComplete(summaryLogs, failedTasksLocal), which is App's
\* handleBatchComplete.
FinalBalanceReturnWith(finals) ==
    /\ finalizers > 0
    /\ finalizers' = finalizers - 1
    /\ completeCalls' = completeCalls + 1
    /\ runType' = "result"
    /\ batchResult' =
          [kind |-> "complete",
           reports |-> CompletionReports(finals),
           unavailable |->
               \A k \in UniqueKeys : ~CompletionReports(finals)[k].reported,
           failedTasks |-> failedTasksLocal,
           ranOn |-> activeBatchList]
    /\ UNCHANGED <<inputs, sideVars, answered, balanceVars, mounted, hasStartedRef, status, currentBatchIndex, active, taskLock,
                   nextTaskIndex, completedCount, failedCountLocal,
                   failedTasksLocal, spawned, pc, task, filesLeft, unmatchedFiles, cancelVars,
                   handedTo, outcomes>>

FinalBalanceReturn ==
    \E finals \in [UniqueKeys -> BalanceAnswers] : FinalBalanceReturnWith(finals)

\* The user presses the button shown when status is SUCCESS and
\* batchTotal > 1: onBack is setRunType('none').
OnBack ==
    /\ mounted
    /\ runType = "batch"
    /\ status = "SUCCESS"
    /\ totalTasks > 1
    /\ runType' = "none"
    /\ UNCHANGED <<inputs, sideVars, answered, balanceVars, batchResult, mounted, hasStartedRef, status, currentBatchIndex, active, taskLock,
                   nextTaskIndex, completedCount, failedCountLocal,
                   failedTasksLocal, spawned, pc, task, filesLeft, unmatchedFiles, finalizers,
                   completeCalls, cancelVars, handedTo, outcomes>>

\* App no longer renders StepRunning: the effect's cleanup runs.
Unmount ==
    /\ mounted
    /\ EffectDone
    /\ runType # "batch"
    /\ mounted' = FALSE
    /\ active' = FALSE
    /\ hasStartedRef' = FALSE
    /\ UNCHANGED <<inputs, sideVars, answered, balanceVars, batchResult, runType, status, currentBatchIndex, taskLock,
                   nextTaskIndex, completedCount, failedCountLocal,
                   failedTasksLocal, spawned, pc, task, filesLeft, unmatchedFiles, finalizers,
                   completeCalls, cancelVars, handedTo, outcomes>>

\* cancelWithSummary is called through the ref: handleBatchCancel builds its
\* log lines from the state as last rendered and awaits getAccountInfo.
\* Every counter change calls setCurrentBatchIndex(completedCount +
\* failedCountLocal); React renders some time later, so the rendered value
\* is any value the sum had since the value read by the previous call, and
\* the rendered startCoins is the state or still null.
CancelWithSummary ==
    /\ mounted
    /\ EffectDone
    /\ cancelInvoked < MaxCancels
    /\ cancelInvoked' = cancelInvoked + 1
    /\ \E rendered \in currentBatchIndex..(completedCount + failedCountLocal),
          renderedCoins \in {Null, startCoins} :
        /\ currentBatchIndex' = rendered
        /\ cancelPending' = Append(cancelPending,
                [figure |-> rendered,
                 startCoins |-> renderedCoins,
                 succeededThen |-> completedCount,
                 failedThen |-> failedTasksLocal])
    /\ UNCHANGED <<inputs, sideVars, answered, balanceVars, batchResult, runType, mounted, hasStartedRef, status, active,
                   taskLock, nextTaskIndex, completedCount, failedCountLocal,
                   failedTasksLocal, spawned, pc, task, filesLeft, unmatchedFiles, finalizers,
                   completeCalls, cancelSummaries, handedTo, outcomes>>

\* The failed tasks recorded so far are passed on.
CancelFailedTasksLive == failedTasksLocal

\* What handleBatchCancel passes to onBatchCancel as the failed tasks.
CancelFailedTasks == <<>>

\* handleBatchCancel after its balance query: the call for pending[i]
\* returned final, or threw (Null, ignored);
\* onBatchCancel(summaryLogs, []) is App's handleBatchComplete.
DeliverCancel(i, final) ==
    /\ cancelSummaries' = Append(cancelSummaries,
            [figure |-> cancelPending[i].figure,
             failedTasks |-> CancelFailedTasks])
    /\ batchResult' =
          [kind |-> "cancel",
           reports |-> CancelReports(cancelPending[i].startCoins, final),
           unavailable |-> FALSE,
           failedTasks |-> CancelFailedTasks,
           ranOn |-> activeBatchList]
    /\ cancelPending' = [j \in 1..(Len(cancelPending) - 1) |->
                            IF j < i THEN cancelPending[j]
                            ELSE cancelPending[j + 1]]
    /\ runType' = "result"

\* A failed balance query ends the handler without calling onBatchCancel.
CancelBalanceReturnDropsOnError ==
    /\ \E i \in DOMAIN cancelPending, final \in BalanceAnswers :
        IF final # Null
        THEN DeliverCancel(i, final)
        ELSE /\ cancelPending' = [j \in 1..(Len(cancelPending) - 1) |->
                                    IF j < i THEN cancelPending[j]
                                    ELSE cancelPending[j + 1]]
             /\ UNCHANGED <<cancelSummaries, batchResult, runType>>
    /\ UNCHANGED <<inputs, sideVars, answered, balanceVars, mounted, hasStartedRef, status, currentBatchIndex, active, taskLock,
                   nextTaskIndex, completedCount, failedCountLocal,
                   failedTasksLocal, spawned, pc, task, filesLeft, unmatchedFiles, finalizers,
                   completeCalls, cancelInvoked, handedTo, outcomes>>

\* The balance query of handleBatchCancel returns or throws.
CancelBalanceReturn ==
    /\ \E i \in DOMAIN cancelPending, final \in BalanceAnswers :
        DeliverCancel(i, final)
    /\ UNCHANGED <<inputs, sideVars, answered, balanceVars, mounted, hasStartedRef, status, currentBatchIndex, active, taskLock,
                   nextTaskIndex, completedCount, failedCountLocal,
                   failedTasksLocal, spawned, pc, task, filesLeft, unmatchedFiles, finalizers,
                   completeCalls, cancelInvoked, handedTo, outcomes>>

\* One of the initial getAccountInfo calls settles with answer c; when it is
\* the last one, the then callback sets startCoins.
InitialBalanceReturn(k, c) ==
    /\ EffectDone
    /\ k \in UniqueKeys \ initialSettled
    /\ initialCoinsMap' = [initialCoinsMap EXCEPT ![k] = c]
    /\ initialSettled' = initialSettled \cup {k}
    /\ startCoins' =
          IF /\ initialSettled' = UniqueKeys
             /\ primaryApiKey # ""
             /\ initialCoinsMap'[primaryApiKey] # Null
          THEN initialCoinsMap'[primaryApiKey]
          ELSE startCoins
    /\ UNCHANGED <<inputs, sideVars, answered, batchResult, runType, mounted, hasStartedRef, status,
                   currentBatchIndex, active, taskLock, nextTaskIndex,
                   completedCount, failedCountLocal, failedTasksLocal, spawned,
                   pc, task, filesLeft, unmatchedFiles, finalizers,
                   completeCalls, cancelVars, handedTo, outcomes>>

\* -------------------------------------------------------------- retry
\* The list the retry button builds from the summary shown and the active
\* batch list: failedIndices.filter(idx => idx < activeBatchList.length)
\* .map(idx => activeBatchList[idx]).
retryBatchList ==
    LET filtered == SelectSeq(batchResult.failedTasks,
                              LAMBDA idx : idx < Len(activeBatchList))
    IN [k \in 1..Len(filtered) |-> activeBatchList[filtered[k] + 1]]

\* The retry button is rendered in the result dialog.
RetryOffered ==
    /\ batchResult.kind # "none"
    /\ batchResult.failedTasks # <<>>
    /\ activeBatchList # <<>>

\* What goes on of the run a retry replaces once all its jobs are terminal:
\* its pending checkAllDone chains, and one more for every worker that is
\* still decoding or saving (it calls checkAllDone when the save returns).
Orphans ==
    LET saving == Cardinality({w \in Workers : pc[w] \in {"decode", "save"}})
        n == finalizers +
                 (IF completedCount + failedCountLocal >= totalTasks
                  THEN saving ELSE 0)
    IN [k \in 1..n |->
            [failedTasks |-> failedTasksLocal, ranOn |-> activeBatchList]]

\* App renders a new StepRunning for totalTasks' jobs: the state of Mounted
\* in the next state, with the dialog closed (setBatchResult(null)).
Remount ==
    /\ runType' = "batch"
    /\ mounted' = TRUE
    /\ hasStartedRef' = FALSE
    /\ status' = "INIT"
    /\ currentBatchIndex' = 0
    /\ active' = TRUE
    /\ taskLock' = FALSE
    /\ nextTaskIndex' = 0
    /\ completedCount' = 0
    /\ failedCountLocal' = 0
    /\ failedTasksLocal' = <<>>
    /\ spawned' = 0
    /\ pc' = [w \in Workers |-> "init"]
    /\ task' = [w \in Workers |-> Null]
    /\ filesLeft' = [w \in Workers |-> 0]
    /\ finalizers' = 0
    /\ completeCalls' = 0
    /\ cancelInvoked' = 0
    /\ cancelPending' = <<>>
    /\ cancelSummaries' = <<>>
    /\ handedTo' = [i \in 0..(totalTasks' - 1) |-> <<>>]
    /\ outcomes' = [i \in 0..(totalTasks' - 1) |-> <<>>]
    /\ unmatchedFiles' = [w \in Workers |-> 0]
    /\ initialCoinsMap' = [k \in UniqueKeys |-> Null]
    /\ initialSettled' = {}
    /\ startCoins' = Null
    /\ batchResult' = NoResult

\* The user presses "retry failed tasks" in the result dialog: the dialog is
\* closed, the retry list becomes the active batch list and a new
\* StepRunning is mounted for it.
RetryFailed ==
    /\ RetryOffered
    /\ ~mounted
    /\ retryBatchList # <<>>
    /\ Len(orphanFinalizers) + Len(Orphans) <= MaxOrphans
    /\ orphanFinalizers' = orphanFinalizers \o Orphans
    /\ activeBatchList' = retryBatchList
    /\ totalTasks' = Len(retryBatchList)
    /\ UNCHANGED <<apiConfigs, autoSaveEnabled, remoteScript, answered, single,
                   strictOld,
                   detailVars>>
    /\ Remount

\* The balance queries of a replaced run's checkAllDone call settle: its
\* then callback calls onBatchComplete with that run's failed tasks (the
\* initial balance queries of that run are outstanding, so no consumption
\* line is written).
OrphanReturn(i) ==
    /\ i \in DOMAIN orphanFinalizers
    /\ batchResult' =
          [kind |-> "complete",
           reports |-> [k \in UniqueKeys |-> NoReport],
           unavailable |-> TRUE,
           failedTasks |-> orphanFinalizers[i].failedTasks,
           ranOn |-> orphanFinalizers[i].ranOn]
    /\ runType' = "result"
    /\ orphanFinalizers' = [j \in 1..(Len(orphanFinalizers) - 1) |->
                               IF j < i THEN orphanFinalizers[j]
                               ELSE orphanFinalizers[j + 1]]
    /\ UNCHANGED <<inputs, single, strictOld, detailVars, answered, balanceVars, mounted,
                   hasStartedRef,
                   status, currentBatchIndex, active, taskLock, nextTaskIndex,
                   completedCount, failedCountLocal, failedTasksLocal, spawned,
                   pc, task, filesLeft, unmatchedFiles, finalizers,
                   completeCalls, cancelVars, handedTo, outcomes>>

\* ------------------------------------------------------- single task mode
\* isBatch: !!batchList && batchList.length > 0
isBatch == totalTasks > 0

\* The effect of a component mounted without a batch list calls
\* runSingleTask(nodes), which runs to its first await: without a key it
\* fails at once, otherwise it calls submitTask with the first key.
RunSingleTask ==
    /\ mounted
    /\ hasStartedRef
    /\ ~isBatch
    /\ single = "none"
    /\ IF primaryApiKey = ""
       THEN status' = "FAILED" /\ single' = "failed"
       ELSE status' = "SUBMITTING" /\ single' = "submit"
    /\ UNCHANGED <<inputs, orphanFinalizers, strictOld, detailVars, answered, balanceVars,
                   batchResult, runType, mounted, hasStartedRef, active,
                   workerVars, cancelVars>>

\* await submitTask(...) of runSingleTask returns res or throws: node errors
\* fail the task, promptTips that cannot be parsed are only logged, and
\* poll() makes the first queryTaskOutputs call.
SingleSubmitReturn ==
    /\ single = "submit"
    /\ \E res \in SubmitResults :
          IF ~active
          THEN single' = "stopped" /\ UNCHANGED status
          ELSE IF res \in {"error", "nodeErrors"}
          THEN status' = "FAILED" /\ single' = "failed"
          ELSE status' = "QUEUED" /\ single' = "poll"
    /\ UNCHANGED <<inputs, orphanFinalizers, strictOld, detailVars, answered, balanceVars,
                   batchResult, runType, mounted, hasStartedRef, active,
                   workerVars, cancelVars>>

\* await queryTaskOutputs(...) of poll() returns res or throws: success
\* with outputs ends the task (after the decode when it is enabled), code
\* 805 fails it, everything else arms the 5 s timer.
SinglePollReturn ==
    /\ single = "poll"
    /\ \E res \in PollResults, decode \in BOOLEAN :
          IF res = "success"
          THEN /\ status' = "SUCCESS"
               /\ single' = IF decode THEN "decode" ELSE "completed"
               /\ runType' = IF decode THEN runType ELSE "result"
          ELSE IF res \in {"failed805", "failedFetchMsg"}
          THEN status' = "FAILED" /\ single' = "failed" /\ UNCHANGED runType
          ELSE /\ status' = IF res = "running" THEN "RUNNING" ELSE status
               /\ single' = "timer"
               /\ UNCHANGED runType
    /\ UNCHANGED <<inputs, orphanFinalizers, strictOld, detailVars, answered, balanceVars,
                   batchResult, mounted, hasStartedRef, active, workerVars,
                   cancelVars>>

\* The 5 s timer fires: poll() tests active and calls queryTaskOutputs.
SinglePollTimer ==
    /\ single = "timer"
    /\ single' = IF active THEN "poll" ELSE "stopped"
    /\ UNCHANGED <<inputs, orphanFinalizers, strictOld, detailVars, answered, balanceVars,
                   batchResult, runType, mounted, hasStartedRef, status,
                   active, workerVars, cancelVars>>

\* await processOutputsWithDecode(...) of poll() returns: onComplete is
\* App's handleComplete, which shows the result view.
SingleDecodeReturn ==
    /\ single = "decode"
    /\ single' = "completed"
    /\ runType' = "result"
    /\ UNCHANGED <<inputs, orphanFinalizers, strictOld, detailVars, answered, balanceVars,
                   batchResult, mounted, hasStartedRef, status, active,
                   workerVars, cancelVars>>

\* -------------------------------------------------- scripted remote side
\* What the remote side does with one job: the submit returns node errors,
\* or the job is accepted, answers queued or running to the first polls and
\* then ends in success with outputs or in failure 805.
Fates == {"success", "failed805", "nodeErrors"}

Scripts ==
    {sc \in [waits : 0..MaxWaits, final : Fates] :
        sc.final = "nodeErrors" => sc.waits = 0}

\* Every upload of a scripted run succeeds.
UploadScripted(w) == UploadReturnWith(w, TRUE)

\* await submitTask(...) returns what the script of the job says.
SubmitScripted(w) ==
    /\ w \in Workers
    /\ pc[w] = "submit"
    /\ SubmitReturnWith(w, IF remoteScript[task[w]].final = "nodeErrors"
                           THEN "nodeErrors" ELSE "ok")

\* await queryTaskOutputs(...) returns the next answer of the job's script.
PollScripted(w) ==
    /\ w \in Workers
    /\ pc[w] = "poll"
    /\ \E res \in PollResults :
          /\ IF answered[task[w]] < remoteScript[task[w]].waits
             THEN res \in {"queued", "running"}
             ELSE res = remoteScript[task[w]].final
          /\ PollAnswer(w, res)
    /\ answered' = [answered EXCEPT ![task[w]] = @ + 1]

Next ==
    \/ EffectStart
    \/ Spawn
    \/ \E w \in Workers : UploadReturn(w)
    \/ \E w \in Workers : SubmitReturn(w)
    \/ \E w \in Workers : PollReturn(w)
    \/ \E w \in Workers : PollWaitReturn(w)
    \/ \E w \in Workers : DecodeReturn(w)
    \/ \E w \in Workers : SaveReturn(w)
    \/ \E w \in Workers : DelayReturn(w)
    \/ FinalBalanceReturn
    \/ OnBack
    \/ Unmount
    \/ CancelWithSummary
    \/ CancelBalanceReturn

Spec == Init /\ [][Next]_vars

\* The balance query of handleBatchCancel is a network call: it returns.
CancelLiveSpec == Spec /\ WF_vars(CancelBalanceReturn)

\* The engine together with the answers of the initial balance queries, for
\* batches of at most MaxBalanceTasks jobs and pools of two distinct keys.
\* Under Spec these queries are still outstanding.
BalanceNext ==
    \/ Next
    \/ \E k \in BalanceKeys, c \in BalanceAnswers : InitialBalanceReturn(k, c)

BalanceSpec == BalanceInit /\ [][BalanceNext]_vars

\* Pools of one key.
RetryPools ==
    {<<[apiKey |-> "A", concurrency |-> c]>> : c \in 1..MaxConcurrency}

RetryInit ==
    /\ totalTasks \in 1..MaxRetryTasks
    /\ apiConfigs \in RetryPools
    /\ Mounted
    /\ FirstRun

\* The engine together with the retry button of the result dialog, for
\* batches of at most MaxRetryTasks jobs.
RetryNext ==
    \/ Next
    \/ RetryFailed
    \/ \E i \in 1..MaxOrphans : OrphanReturn(i)

RetrySpec == RetryInit /\ [][RetryNext]_vars

ScriptInit ==
    /\ totalTasks \in 1..MaxScriptTasks
    /\ apiConfigs \in Pools
    /\ Mounted
    /\ runType = "batch"
    /\ activeBatchList = OriginalList(totalTasks)
    /\ remoteScript \in [0..(totalTasks - 1) -> Scripts]
    /\ answered = [i \in 0..(totalTasks - 1) |-> 0]
    /\ orphanFinalizers = <<>>
    /\ single = "none"
    /\ strictOld = <<>>
    /\ NoDetails

\* A run that is neither left nor cancelled, against a remote side that
\* follows remoteScript; the workers are scheduled in any order.
ScriptNext ==
    \/ EffectStart
    \/ Spawn
    \/ \E w \in Workers : UploadScripted(w)
    \/ \E w \in Workers : SubmitScripted(w)
    \/ \E w \in Workers : PollScripted(w)
    \/ \E w \in Workers : PollWaitReturn(w)
    \/ \E w \in Workers : DecodeReturn(w)
    \/ \E w \in Workers : SaveReturn(w)
    \/ \E w \in Workers : DelayReturn(w)
    \/ FinalBalanceReturn

ScriptSpec == ScriptInit /\ [][ScriptNext]_vars

\* StepRunning mounted with an empty batch list (App's single run: no
\* batch list is passed).
SingleInit ==
    /\ totalTasks = 0
    /\ apiConfigs \in Pools
    /\ Mounted
    /\ runType = "single"
    /\ activeBatchList = <<>>
    /\ remoteScript = <<>>
    /\ answered = <<>>
    /\ orphanFinalizers = <<>>
    /\ single = "none"
    /\ strictOld = <<>>
    /\ NoDetails

\* The component stays mounted until handleComplete shows the result view;
\* nothing of the task is pending then.
SingleNext ==
    \/ EffectStart
    \/ RunSingleTask
    \/ SingleSubmitReturn
    \/ SinglePollReturn
    \/ SinglePollTimer
    \/ SingleDecodeReturn

SingleSpec == SingleInit /\ [][SingleNext]_vars

\* ------------------------------------------------------------ definitions
Indices == 0..(totalTasks - 1)

\* Index i was handed out and no terminal report was recorded for it.
InFlight(i) == handedTo[i] # <<>> /\ outcomes[i] = <<>>

\* The worker is inside the iteration of the index it holds.
Holding(w) == task[w] # Null

AllWorkersDone == EffectDone /\ \A w \in Workers : pc[w] = "done"

Terminal == completedCount + failedCountLocal

RECURSIVE SumReports(_)
SumReports(n) == IF n = 0 THEN 0 ELSE Len(outcomes[n - 1]) + SumReports(n - 1)

\* ------------------------------------------------------------------ claims
\* C1: every index below the cursor was handed out exactly once and none at
\* or above it, no two workers hold the same index at the same time, and
\* when all workers of a run that is still active have returned, every
\* index of [0, totalTasks) was handed out.
C1_ExclusiveHandOut ==
    /\ \A i \in Indices : Len(handedTo[i]) = IF i < nextTaskIndex THEN 1 ELSE 0
    /\ \A v, w \in Workers : (v # w /\ Holding(v)) => task[v] # task[w]
    /\ (active /\ NumWorkers >= 1 /\ AllWorkersDone) => nextTaskIndex = totalTasks

C1_Witness ==
    /\ active
    /\ NumWorkers >= 2
    /\ totalTasks >= 2
    /\ AllWorkersDone
    /\ \A i \in Indices : Len(handedTo[i]) = 1
    /\ \E i, j \in Indices : handedTo[i] # handedTo[j]

\* C2: for every pool entry, the indices in flight that were handed to the
\* workers of that entry are at most the entry's concurrency, and every
\* worker has at most one index in flight.
C2_InFlightWithinConcurrency ==
    /\ \A e \in DOMAIN apiConfigs :
        Cardinality({i \in Indices :
            InFlight(i) /\ \E k \in DOMAIN handedTo[i] :
                               WorkerSlots[handedTo[i][k]] = e})
            <= apiConfigs[e].concurrency
    /\ \A w \in Workers :
        Cardinality({i \in Indices :
            InFlight(i) /\ \E k \in DOMAIN handedTo[i] : handedTo[i][k] = w})
            <= 1

\* Two indices in flight on the two workers of one entry of concurrency 2.
C2_Witness ==
    \E e \in DOMAIN apiConfigs :
        /\ apiConfigs[e].concurrency = 2
        /\ Cardinality({i \in Indices :
               InFlight(i) /\ \E k \in DOMAIN handedTo[i] :
                                  WorkerSlots[handedTo[i][k]] = e}) = 2

\* C3: onBatchComplete is called at most once, and once every index is
\* terminal and no worker is still saving, a call was made or is pending.
C3_SummaryExactlyOnce ==
    /\ completeCalls <= 1
    /\ (Terminal = totalTasks /\ \A w \in Workers : pc[w] \notin {"decode", "save"})
          => completeCalls + finalizers >= 1

\* C4: completedCount + failedCountLocal never exceeds totalTasks, never
\* decreases, and is the sum of at most one report per index.
C4_CountersBounded ==
    /\ [](/\ Terminal <= totalTasks
          /\ \A i \in Indices : Len(outcomes[i]) <= 1
          /\ Terminal = SumReports(totalTasks))
    /\ [][completedCount' + failedCountLocal' >= Terminal]_vars

C4_Witness ==
    /\ totalTasks >= 2
    /\ Terminal = totalTasks
    /\ completedCount >= 1
    /\ failedCountLocal >= 1

\* C5: a run that was not cancelled does not come to rest without a
\* completion summary: when the effect has run, every worker has returned
\* and no checkAllDone chain is pending, onBatchComplete was called.
C5_NoRestWithoutSummary ==
    (active /\ cancelInvoked = 0 /\ runType = "batch" /\ AllWorkersDone
        /\ finalizers = 0)
      => completeCalls >= 1

\* The step is worker w recording the failure of the index it holds.
RecordsFailure(w) ==
    /\ failedCountLocal' # failedCountLocal
    /\ pc'[w] # pc[w]

\* C6: a step that records a failure records exactly the index the worker
\* holds, leaves every other worker and every other index as they were, and
\* leaves the worker in its pause; a worker leaving the pause claims the
\* next unclaimed index when the run is active and one exists, and returns
\* otherwise.
C6_FailureIsLocal ==
    [][\A w \in Workers :
        /\ RecordsFailure(w) =>
            /\ failedCountLocal' = failedCountLocal + 1
            /\ failedTasksLocal' = Append(failedTasksLocal, task[w])
            /\ completedCount' = completedCount
            /\ pc'[w] = "delay"
            /\ \A v \in Workers \ {w} : pc'[v] = pc[v] /\ task'[v] = task[v]
            /\ \A i \in Indices \ {task[w]} : outcomes'[i] = outcomes[i]
            /\ active' = active
            /\ nextTaskIndex' = nextTaskIndex
        /\ (pc[w] = "delay" /\ pc'[w] # "delay") =>
            IF active /\ nextTaskIndex < totalTasks
            THEN task'[w] = nextTaskIndex /\ pc'[w] \in {"upload", "submit"}
            ELSE pc'[w] = "done"
    ]_vars

\* A worker that recorded the failure of index 0 now holds index 2 while
\* another worker is still polling index 1.
C6_Witness ==
    /\ failedTasksLocal = <<0>>
    /\ \E w \in Workers : handedTo[0] = <<w>> /\ task[w] = 2
    /\ \E v \in Workers : pc[v] = "poll" /\ task[v] = 1

\* C7: while the run is inactive, the return of an upload, submit or poll
\* call changes no counter and no failed-task entry and starts no decode
\* or save.
C7_ResultDiscardedWhenInactive ==
    [][~active =>
        /\ completedCount' = completedCount
        /\ failedCountLocal' = failedCountLocal
        /\ failedTasksLocal' = failedTasksLocal
        /\ \A w \in Workers :
            pc[w] \in {"upload", "submit", "poll"} => pc'[w] \notin {"decode", "save"}
    ]_vars

\* The step makes worker w start an uploadFile, submitTask or
\* queryTaskOutputs call.
IssuesCall(w) ==
    /\ pc'[w] \in {"upload", "submit", "poll"}
    /\ pc'[w] # pc[w] \/ filesLeft'[w] # filesLeft[w]

\* C8: while the run is inactive no worker starts an uploadFile, submitTask
\* or queryTaskOutputs call.
C8_NoCallWhenInactive ==
    [][~active => \A w \in Workers : ~IssuesCall(w)]_vars

\* C9: every call of cancelWithSummary is followed by a call of
\* onBatchCancel, and from the first call on completedCount +
\* failedCountLocal is at most totalTasks.
C9_CancelAlwaysDelivers ==
    /\ \A n \in 1..MaxCancels :
          (cancelInvoked >= n) ~> (Len(cancelSummaries) >= n)
    /\ [](cancelInvoked >= 1 => Terminal <= totalTasks)

\* The summary was delivered while a worker still had a call in flight.
C9_Witness ==
    /\ Len(cancelSummaries) >= 1
    /\ \E w \in Workers : pc[w] \in {"upload", "submit", "poll"}

\* C10 as claimed: the figure of a cancellation summary is the number of
\* jobs that had succeeded when cancelWithSummary was called, and the
\* failed tasks it passes are the ones recorded by then.
C10_SummaryReflectsTerminalJobs ==
    /\ [](\A k \in DOMAIN cancelPending :
            cancelPending[k].figure = cancelPending[k].succeededThen)
    /\ [][Len(cancelSummaries') > Len(cancelSummaries) =>
            \E k \in DOMAIN cancelPending :
                cancelSummaries'[Len(cancelSummaries')] =
                    [figure |-> cancelPending[k].succeededThen,
                     failedTasks |-> cancelPending[k].failedThen]
       ]_vars

\* C10 as amended: the figure of a cancellation summary is
\* currentBatchIndex as rendered, a count of succeeded and failed jobs
\* together that is at most completedCount + failedCountLocal at the call,
\* and the failed tasks it passes are always the empty list.
C10_SummaryCountsTerminalPassesNoFailures ==
    /\ \A k \in DOMAIN cancelPending :
          /\ cancelPending[k].figure <= currentBatchIndex
          /\ cancelPending[k].figure <=
                cancelPending[k].succeededThen + Len(cancelPending[k].failedThen)
    /\ \A k \in DOMAIN cancelSummaries :
          /\ cancelSummaries[k].failedTasks = <<>>
          /\ cancelSummaries[k].figure <= currentBatchIndex
    /\ currentBatchIndex <= Terminal

\* A delivered summary whose figure counts a failed job: nothing had
\* succeeded, one job had failed, the figure is 1 and the list is empty.
C10_Witness ==
    /\ completedCount = 0
    /\ failedCountLocal >= 1
    /\ \E k \in DOMAIN cancelSummaries :
          cancelSummaries[k].figure = 1 /\ cancelSummaries[k].failedTasks = <<>>

\* C11: a run delivers at most one terminal summary: once the cancellation
\* summary was delivered or the run was deactivated, no completion summary
\* is delivered.
C11_NoCompletionAfterTerminal ==
    [][(Len(cancelSummaries) >= 1 \/ ~active) => completeCalls' = completeCalls]_vars

\* C12: every consumption a summary reports, on completion and on
\* cancellation, is max(0, start - end) of the balances it was computed
\* from.
C12_ConsumptionIsClampedDifference ==
    \A k \in UniqueKeys :
        batchResult.reports[k].reported =>
            batchResult.reports[k].consumed =
                Max(0, batchResult.reports[k].start - batchResult.reports[k].final)

\* C19: when a worker has a submitTask call in flight, the initial balance
\* query of every distinct key has settled.
C19_BalancesRecordedBeforeSubmit ==
    (\E w \in Workers : pc[w] = "submit") => initialSettled = UniqueKeys

\* C20: whatever the balance queries answer, a run whose jobs are all
\* terminal has delivered its completion summary or can deliver it; the
\* summary carries the failed tasks the workers recorded; a consumption
\* line is present only for a key whose start and end balance were both
\* obtained, and the summary says consumption is unavailable exactly when it
\* has no such line.
C20_BalanceFailureIsNotFatal ==
    /\ (Terminal = totalTasks /\ \A w \in Workers : pc[w] \notin {"decode", "save"})
          => completeCalls + finalizers >= 1
    /\ finalizers > 0 => ENABLED FinalBalanceReturn
    /\ batchResult.kind = "complete" =>
          /\ batchResult.failedTasks = failedTasksLocal
          /\ \A k \in UniqueKeys :
                batchResult.reports[k].reported =>
                    /\ initialCoinsMap[k] # Null
                    /\ batchResult.reports[k].start = initialCoinsMap[k]
                    /\ batchResult.reports[k].final \in Coins
          /\ batchResult.unavailable <=>
                \A k \in UniqueKeys : ~batchResult.reports[k].reported

\* A completion summary after failed balance queries: one key has its
\* line, the other has a start balance but no line, and a failed task is
\* listed.
C20_Witness ==
    /\ batchResult.kind = "complete"
    /\ batchResult.failedTasks # <<>>
    /\ \E k \in UniqueKeys : batchResult.reports[k].reported
    /\ \E k \in UniqueKeys :
          initialCoinsMap[k] # Null /\ ~batchResult.reports[k].reported

\* The step records the failure of the index worker w holds.
FailureRecorded(w) ==
    /\ failedCountLocal' = failedCountLocal + 1
    /\ failedTasksLocal' = Append(failedTasksLocal, task[w])
    /\ outcomes'[task[w]] = <<"fail">>
    /\ completedCount' = completedCount

\* C13: the return of submitTask with a non-empty node_errors never starts
\* a poll and, in a run that is active, records the job as failed in the
\* same step; a job that is being polled has no terminal record.
C13_NodeErrorsFailWithoutPoll ==
    /\ [][\A w \in Workers :
            SubmitReturnWith(w, "nodeErrors") =>
                /\ pc'[w] \in {"delay", "done"}
                /\ active => FailureRecorded(w)
         ]_vars
    /\ [](\A w \in Workers :
            pc[w] \in {"poll", "pollwait"} =>
                task[w] # Null /\ outcomes[task[w]] = <<>>)

\* The only job of the run was recorded as failed, the run is active and
\* its worker is in the pause.
C13_Witness ==
    /\ active
    /\ totalTasks = 1
    /\ status = "SUCCESS"
    /\ failedTasksLocal = <<0>>
    /\ \E w \in Workers : pc[w] = "delay" /\ handedTo[0] = <<w>>
    /\ \A w \in Workers : filesLeft[w] = 0

\* C14: in an active run a poll response with code 0 and outputs counts the
\* job as succeeded, a response with code 804 or 813 leaves it polling and
\* changes no counter, and a response with code 805 or another non-zero
\* code counts it as failed, whatever the failure message says.
C14_PollClassification ==
    [][\A w \in Workers :
        /\ (active /\ PollReturnWith(w, "success")) =>
              /\ completedCount' = completedCount + 1
              /\ outcomes'[task[w]] = <<"ok">>
              /\ failedCountLocal' = failedCountLocal
        /\ \A res \in {"running", "queued"} :
              PollReturnWith(w, res) =>
                  /\ pc'[w] = "pollwait"
                  /\ completedCount' = completedCount
                  /\ failedCountLocal' = failedCountLocal
        /\ \A res \in {"failed805", "failedOther", "failedFetchMsg"} :
              (active /\ PollReturnWith(w, res)) => FailureRecorded(w)
    ]_vars

\* C15: in an active run a poll call that fails (network failure, non-2xx
\* status, unreadable body) leaves the job polling: the worker waits for
\* the interval with the same index, and no failure is recorded.
C15_PollIoFailureIsRetried ==
    [][\A w \in Workers :
        \A res \in {"fetchError", "httpError"} :
            (active /\ PollReturnWith(w, res)) =>
                /\ pc'[w] = "pollwait"
                /\ task'[w] = task[w]
                /\ failedCountLocal' = failedCountLocal
                /\ failedTasksLocal' = failedTasksLocal
    ]_vars

\* The responses that carry a terminal remote status.
TerminalStatuses ==
    {"success", "emptySuccess", "failed805", "failedOther", "failedFetchMsg"}

\* C16: a queued or running response leaves the job polling with no
\* failure recorded, the interval timer of an active run leads to the next
\* poll, and in an active run every poll return that carries no terminal
\* remote status leaves the job in the poll loop.
C16_PollLoopEndsOnlyOnTerminalStatus ==
    [][\A w \in Workers :
        /\ \A res \in {"running", "queued"} :
              PollReturnWith(w, res) =>
                  /\ pc'[w] = "pollwait"
                  /\ task'[w] = task[w]
                  /\ outcomes' = outcomes
        /\ (pc[w] = "pollwait" /\ active /\ pc'[w] # "pollwait") =>
              pc'[w] = "poll" /\ task'[w] = task[w]
        /\ \A res \in PollResults \ TerminalStatuses :
              (active /\ PollReturnWith(w, res)) =>
                  pc'[w] = "pollwait" /\ task'[w] = task[w]
    ]_vars

\* C17: the failed upload of a pending file never leads to a submitTask
\* call for the job and, in a run that is active, records the job as failed
\* in the same step; no other worker and no other index is touched; a job
\* whose submitTask call is in flight has no terminal record.
C17_UploadFailureFailsJobOnly ==
    /\ [][\A w \in Workers :
            UploadReturnWith(w, FALSE) =>
                /\ pc'[w] \in {"delay", "done"}
                /\ active => FailureRecorded(w)
                /\ \A v \in Workers \ {w} : pc'[v] = pc[v] /\ task'[v] = task[v]
                /\ \A i \in Indices \ {task[w]} : outcomes'[i] = outcomes[i]
         ]_vars
    /\ [](\A w \in Workers :
            pc[w] = "submit" => task[w] # Null /\ outcomes[task[w]] = <<>>)

\* A job failed before any submitTask call of the run was made (status is
\* set to RUNNING before every such call), while another job is not
\* terminal yet.
C17_Witness ==
    /\ active
    /\ status = "INIT"
    /\ failedCountLocal = 1
    /\ \E w \in Workers : pc[w] = "delay"
    /\ \E i \in Indices : outcomes[i] = <<>>

\* C18: when the submitTask call of a job is made, no pendingFiles entry
\* registered for that job is left without its upload.
C18_PendingFilesUploadedBeforeSubmit ==
    \A w \in Workers : pc[w] = "submit" => unmatchedFiles[w] = 0

\* ------------------------------------------------------- reported workers
RECURSIVE SumConcurrencyFrom(_, _)
SumConcurrencyFrom(p, i) ==
    IF i > Len(p) THEN 0 ELSE Concurrency(p[i]) + SumConcurrencyFrom(p, i + 1)

\* totalWorkers of the log line "使用 n 个 API (共 totalWorkers 并发)":
\* apiConfigs.reduce((acc, c) => acc + (c.concurrency || 1), 0).
totalWorkers == SumConcurrencyFrom(apiConfigs, 1)

\* workerCount of the log line "已启动 workerCount 个并发工作线程", written
\* when the effect has made its last runWorker call.
workerCount == spawned

\* C21: when the effect has run, the number of runWorker calls it made is
\* the sum of the concurrency values of the pool entries, and both worker
\* counts the engine logs (workerCount and totalWorkers) are that number.
C21_WorkersAreSumOfConcurrency ==
    (hasStartedRef /\ EffectDone) =>
        /\ spawned = SumConcurrencyFrom(apiConfigs, 1)
        /\ workerCount = spawned
        /\ totalWorkers = spawned

\* ------------------------------------------------------------------ retry
\* failedBatchIndices: the rows App marks as failed from the summary shown,
\* new Set(failedTasks.map(t => t.batchIndex)).
failedBatchIndices ==
    {batchResult.failedTasks[k] : k \in DOMAIN batchResult.failedTasks}

\* The rows of the user's batch list whose jobs the summary's run recorded
\* as failed.
FailedRows ==
    {batchResult.ranOn[batchResult.failedTasks[k] + 1] :
        k \in DOMAIN batchResult.failedTasks}

\* C22: whenever the retry button is offered, the list it starts the new
\* run with holds exactly the job specs at the failed indices of the list
\* the summary's run executed, one per failed job.
C22_RetryRunsExactlyTheFailedJobs ==
    RetryOffered =>
        retryBatchList =
            [k \in DOMAIN batchResult.failedTasks |->
                batchResult.ranOn[batchResult.failedTasks[k] + 1]]

\* C23: the indices of a completion summary's failed tasks are the rows, in
\* the user's batch list, of the jobs that failed, so the failed markers
\* App derives from the summary are on those rows.
C23_FailedIndexIdentifiesOriginalJob ==
    batchResult.kind = "complete" =>
        /\ \A k \in DOMAIN batchResult.failedTasks :
              batchResult.failedTasks[k] =
                  batchResult.ranOn[batchResult.failedTasks[k] + 1]
        /\ failedBatchIndices = FailedRows

\* ------------------------------------------------------- empty job list
\* C24: an engine started with an empty job list makes no submit call (so
\* none of the calls that follow one) and, once its effect has run, has
\* emitted the batch summary or has it pending.
C24_EmptyListIsNoOp ==
    (~isBatch /\ single # "none") =>
        /\ single \notin {"submit", "poll", "timer", "decode", "completed"}
        /\ completeCalls + finalizers >= 1

\* ------------------------------------------------------- scripted runs
\* The indices whose script ends in success, and the others.
ScriptedOk == {i \in Indices : remoteScript[i].final = "success"}

ScriptedFail == Indices \ ScriptedOk

\* C25: in a run with at least one worker against a scripted remote side,
\* every recorded outcome is the one the job's script fixes, and when all
\* workers have returned the completed count, the failed count and the set
\* of failed indices are the ones the scripts fix, whatever the pool and
\* the order in which the workers ran.
C25_FinalCountsAreDetermined ==
    /\ \A i \in Indices :
          outcomes[i] # <<>> =>
              outcomes[i] = IF i \in ScriptedOk THEN <<"ok">> ELSE <<"fail">>
    /\ (NumWorkers >= 1 /\ AllWorkersDone) =>
          /\ completedCount = Cardinality(ScriptedOk)
          /\ failedCountLocal = Cardinality(ScriptedFail)
          /\ {failedTasksLocal[k] : k \in DOMAIN failedTasksLocal} = ScriptedFail
          /\ Len(failedTasksLocal) = Cardinality(ScriptedFail)

\* Two jobs, one scripted to succeed and one to fail, were run by two
\* workers, which have both returned.
C25_Witness ==
    /\ NumWorkers >= 2
    /\ AllWorkersDone
    /\ Cardinality(ScriptedOk) = 1
    /\ Cardinality(ScriptedFail) = 1
    /\ handedTo[0] # handedTo[1]
    /\ completedCount = 1
    /\ failedCountLocal = 1

\* The queryTaskOutputs calls made so far for index i: the answered ones
\* and the one in flight.
PollCalls(i) ==
    answered[i] + Cardinality({w \in Workers : pc[w] = "poll" /\ task[w] = i})

\* C28: for a job whose script is k queued or running answers and then
\* success, at most k + 1 poll calls are made, the job is counted as
\* succeeded exactly when the answer to call k + 1 has arrived, and from
\* then on no poll call is made or answered for it.
C28_PollCallsAreWaitsPlusOne ==
    /\ [](\A i \in ScriptedOk :
            /\ PollCalls(i) <= remoteScript[i].waits + 1
            /\ (outcomes[i] = <<"ok">>) <=>
                   (answered[i] = remoteScript[i].waits + 1)
            /\ outcomes[i] = <<"ok">> =>
                   PollCalls(i) = remoteScript[i].waits + 1)
    /\ [][\A i \in ScriptedOk :
            outcomes[i] = <<"ok">> =>
                /\ answered'[i] = answered[i]
                /\ \A w \in Workers : ~(pc'[w] = "poll" /\ task'[w] = i)
         ]_vars

\* A job answered queued or running MaxWaits times succeeded on poll call
\* MaxWaits + 1.
C28_Witness ==
    \E i \in ScriptedOk :
        /\ remoteScript[i].waits = MaxWaits
        /\ outcomes[i] = <<"ok">>
        /\ answered[i] = MaxWaits + 1
        /\ PollCalls(i) = MaxWaits + 1

\* ------------------------------------------------------------------- C26
\* How many times index i is in the failed-job list.
FailedTimes(i) ==
    Cardinality({k \in DOMAIN failedTasksLocal : failedTasksLocal[k] = i})

\* The indices counted as succeeded.
Succeeded == {i \in Indices : outcomes[i] = <<"ok">>}

\* C26: within a run a counted job keeps its terminal state: a job reported
\* as succeeded or as failed keeps exactly that one report in every later
\* step, the failed-job list holds a failed job once and a succeeded job
\* never, and completedCount counts each succeeded job once.
C26_TerminalIsFinal ==
    /\ [](\A i \in Indices :
            /\ outcomes[i] \in {<<>>, <<"ok">>, <<"fail">>}
            /\ FailedTimes(i) = (IF outcomes[i] = <<"fail">> THEN 1 ELSE 0))
    /\ [](completedCount = Cardinality(Succeeded))
    /\ [][\A i \in Indices :
            outcomes[i] # <<>> =>
                /\ outcomes'[i] = outcomes[i]
                /\ completedCount' >= completedCount
                /\ failedCountLocal' >= failedCountLocal]_vars

\* One job is counted as succeeded, another as failed, and a worker is
\* polling a third one.
C26_Witness ==
    /\ \E i \in Indices : outcomes[i] = <<"ok">>
    /\ \E i \in Indices : outcomes[i] = <<"fail">>
    /\ \E w \in Workers : pc[w] = "poll" /\ outcomes[task[w]] = <<>>

\* ------------------------------------------------------------------- C27
\* C27: the step in which a worker's decode or save of a succeeded job's
\* outputs ends, with or without an error, leaves failedCountLocal, the
\* failed-job list and completedCount as they are, leaves the job counted as
\* succeeded, and takes the worker on (decode to save, save to the pause
\* before the next claim), where the next pass of its loop is enabled.
C27_SaveFailureKeepsJobCompleted ==
    [][\A w \in Workers :
          (pc[w] \in {"decode", "save"} /\ pc'[w] # pc[w]) =>
              /\ failedCountLocal' = failedCountLocal
              /\ failedTasksLocal' = failedTasksLocal
              /\ completedCount' = completedCount
              /\ outcomes[task[w]] = <<"ok">>
              /\ outcomes' = outcomes
              /\ pc'[w] = (IF pc[w] = "decode" THEN "save" ELSE "delay")
              /\ (pc'[w] = "delay" => (ENABLED DelayReturn(w))')]_vars

\* With one worker and auto-save on, the first job was saved (its save may
\* have failed) and stays counted as completed with nothing failed, and the
\* same worker has claimed the next job and is polling it.
C27_Witness ==
    /\ autoSaveEnabled
    /\ NumWorkers = 1
    /\ outcomes[0] = <<"ok">>
    /\ failedCountLocal = 0
    /\ failedTasksLocal = <<>>
    /\ pc[1] = "poll"
    /\ task[1] = 1

\* ---------------------------------------------------- node error payloads
\* The known phrases parseNodeErrors looks for in the text of an error:
\* "balance" for 'balance is insufficient' or 'please recharge', "key" for
\* 'Invalid API' or 'API key'.
Phrases == {"balance", "key"}

\* One error object: the phrases its details (or message) text contains and
\* whether its type is 'custom_validation_failed'.
ErrorObjects == [phrases : SUBSET Phrases, custom : BOOLEAN]

\* One entry of node_errors, in the order of Object.entries: an object with
\* an errors array ("list"), an object that is itself the error ("bare"), or
\* a text ("string", the value type PromptTips declares).
NodeEntries ==
    [form : {"list"},
     errors : UNION {[1..k -> ErrorObjects] : k \in 0..MaxErrors}]
    \cup [form : {"bare"}, errors : [1..1 -> ErrorObjects]]
    \cup [form : {"string"},
          errors : [1..1 -> [phrases : SUBSET Phrases, custom : {FALSE}]]]

\* The non-empty payloads (Object.keys(node_errors).length > 0).
NodeErrorPayloads == UNION {[1..n -> NodeEntries] : n \in 1..MaxNodes}

\* The three tests parseNodeErrors makes on one error, in their order.
ErrorCategory(err) ==
    IF "balance" \in err.phrases THEN "balance"
    ELSE IF "key" \in err.phrases THEN "key"
    ELSE IF err.custom THEN "custom"
    ELSE "none"

\* The inner loop over errors, from position k.
RECURSIVE FirstInErrors(_, _)
FirstInErrors(errors, k) ==
    IF k > Len(errors) THEN "none"
    ELSE IF ErrorCategory(errors[k]) # "none" THEN ErrorCategory(errors[k])
    ELSE FirstInErrors(errors, k + 1)

\* The outer loop over entries, from entry n: only entries that are objects
\* are looked into.
RECURSIVE FirstInNodes(_, _)
FirstInNodes(ne, n) ==
    IF n > Len(ne) THEN "none"
    ELSE LET found == IF ne[n].form = "string" THEN "none"
                      ELSE FirstInErrors(ne[n].errors, 1)
         IN  IF found # "none" THEN found ELSE FirstInNodes(ne, n + 1)

\* parseNodeErrors: the message names the category; the tip is an advice
\* text for a known category and the formatted raw payload otherwise.
parseNodeErrors(ne) ==
    LET c == FirstInNodes(ne, 1)
    IN  IF c = "none" THEN [message |-> "nodeError", tip |-> "raw"]
        ELSE [message |-> c, tip |-> "advice"]

\* runWorker: node errors in the submit answer. Only the message of the
\* parse result is taken, thrown as an Error and recorded with the failed
\* job (failedTasksLocal entry and log line).
BatchNodeErrors ==
    /\ nodeErrors # <<>>
    /\ errorDetails = <<>>
    /\ errorDetails' = <<[mode |-> "batch",
                          message |-> parseNodeErrors(nodeErrors).message,
                          tip |-> "none"]>>
    /\ UNCHANGED <<inputs, balanceVars, cancelVars, workerVars, answered,
                   orphanFinalizers, single, strictOld, nodeErrors, heap, pendingFiles,
                   nodesToSubmit, copyNext, payloads, runType, mounted,
                   hasStartedRef, status, active, batchResult>>

\* runSingleTask: node errors in the submit answer. Message and tip are
\* both shown (setErrorDetails).
SingleNodeErrors ==
    /\ nodeErrors # <<>>
    /\ errorDetails = <<>>
    /\ errorDetails' = <<[mode |-> "single",
                          message |-> parseNodeErrors(nodeErrors).message,
                          tip |-> parseNodeErrors(nodeErrors).tip]>>
    /\ UNCHANGED <<inputs, balanceVars, cancelVars, workerVars, answered,
                   orphanFinalizers, single, strictOld, nodeErrors, heap, pendingFiles,
                   nodesToSubmit, copyNext, payloads, runType, mounted,
                   hasStartedRef, status, active, batchResult>>

\* One job whose submit answer carries a node_errors payload.
ClassifyInit ==
    /\ totalTasks = 1
    /\ apiConfigs = <<[apiKey |-> "A", concurrency |-> 1]>>
    /\ Mounted
    /\ runType = "batch"
    /\ activeBatchList = OriginalList(1)
    /\ remoteScript = <<>>
    /\ answered = <<>>
    /\ orphanFinalizers = <<>>
    /\ single = "none"
    /\ strictOld = <<>>
    /\ nodeErrors \in NodeErrorPayloads
    /\ errorDetails = <<>>
    /\ heap = <<>>
    /\ pendingFiles = {}
    /\ nodesToSubmit = <<>>
    /\ copyNext = 0
    /\ payloads = <<>>

ClassifyNext ==
    \/ BatchNodeErrors
    \/ SingleNodeErrors

ClassifySpec == ClassifyInit /\ [][ClassifyNext]_vars

\* ------------------------------------------------------------------- C29
\* The category of the first error, in entry order then error order, that
\* matches a known pattern; "nodeError" (unclassified) when none does.
RECURSIVE FirstMatch(_, _)
FirstMatch(ne, n) ==
    IF n > Len(ne) THEN "nodeError"
    ELSE IF FirstInErrors(ne[n].errors, 1) # "none"
         THEN FirstInErrors(ne[n].errors, 1)
         ELSE FirstMatch(ne, n + 1)

\* C29: a job that failed on node errors carries the category of the first
\* matching error (within one error: balance, then key, then custom
\* validation), the unclassified category only when no error matches, and
\* with the unclassified category the raw payload.
C29_FirstMatchAndRawPayload ==
    errorDetails # <<>> =>
        /\ errorDetails[1].message = FirstMatch(nodeErrors, 1)
        /\ (errorDetails[1].message = "nodeError" =>
                errorDetails[1].tip = "raw")

\* ------------------------------------------------- the arrays of a job
\* The fieldValues of one row as the caller built it: every field holds the
\* local placeholder of a file still to be uploaded.
CallerRow == [f \in 1..MaxFields |-> "local"]

\* batchList[row] is the array with identity row + 1; the copy a worker
\* makes lives after the rows, in the place of that worker, until the job
\* is over.
RowObject(row) == row + 1

CopyObject(w) == totalTasks + w

\* The worker is at the top of its loop: the copy of its last job is
\* garbage.
Released(h, w) == [h EXCEPT ![CopyObject(w)] = <<>>]

\* The keys of pendingFiles for rows 0..n-1: one per field of a row, and
\* for the first row one more, field MaxFields + 1, that stands for a node
\* id or field name no entry of the row has (findIndex gives -1).
PendingKeys(n) ==
    ((0..(n - 1)) \X (1..MaxFields)) \cup {<<0, MaxFields + 1>>}

\* The fields of filesToUpload for a row, from field f on, in key order.
RECURSIVE FilesToUpload(_, _)
FilesToUpload(row, f) ==
    IF f > MaxFields + 1 THEN <<>>
    ELSE (IF <<row, f>> \in pendingFiles THEN <<f>> ELSE <<>>)
             \o FilesToUpload(row, f + 1)

IdleWorker == [st |-> "idle", row |-> Null, obj |-> 0, files |-> <<>>]

\* The top of the worker loop up to the first await, with the copy left
\* out: nodesToSubmit stays the caller's array.
ClaimRowAliases(w) ==
    /\ w \in DOMAIN nodesToSubmit
    /\ nodesToSubmit[w].st = "idle"
    /\ IF copyNext >= totalTasks
       THEN /\ nodesToSubmit' = [nodesToSubmit EXCEPT ![w].st = "done"]
            /\ UNCHANGED <<copyNext, heap, payloads>>
       ELSE LET row == copyNext
                files == FilesToUpload(row, 1)
            IN  /\ copyNext' = copyNext + 1
                /\ UNCHANGED heap
                /\ IF files = <<>>
                   THEN /\ nodesToSubmit' =
                              [nodesToSubmit EXCEPT ![w] = IdleWorker]
                        /\ payloads' =
                              [payloads EXCEPT ![row + 1] = heap[RowObject(row)]]
                   ELSE /\ nodesToSubmit' =
                              [nodesToSubmit EXCEPT ![w] =
                                  [st |-> "upload", row |-> row,
                                   obj |-> RowObject(row), files |-> files]]
                        /\ UNCHANGED payloads
    /\ UNCHANGED <<inputs, balanceVars, cancelVars, workerVars, answered,
                   orphanFinalizers, single, strictOld, nodeErrors, errorDetails,
                   pendingFiles, runType, mounted, hasStartedRef, status,
                   active, batchResult>>

\* The top of the worker loop up to the first await: the next row is
\* taken, its pendingFiles entries are selected, and when there are some
\* nodesToSubmit becomes a JSON copy of the row; without files submitTask
\* serialises the row as it is. Nothing after the submit call touches the
\* arrays, so the worker is followed again from the top of its loop.
ClaimRow(w) ==
    /\ w \in DOMAIN nodesToSubmit
    /\ nodesToSubmit[w].st = "idle"
    /\ IF copyNext >= totalTasks
       THEN /\ nodesToSubmit' = [nodesToSubmit EXCEPT ![w].st = "done"]
            /\ UNCHANGED <<copyNext, heap, payloads>>
       ELSE LET row == copyNext
                files == FilesToUpload(row, 1)
            IN  /\ copyNext' = copyNext + 1
                /\ IF files = <<>>
                   THEN /\ nodesToSubmit' =
                              [nodesToSubmit EXCEPT ![w] = IdleWorker]
                        /\ payloads' =
                              [payloads EXCEPT ![row + 1] = heap[RowObject(row)]]
                        /\ UNCHANGED heap
                   ELSE /\ heap' = [heap EXCEPT ![CopyObject(w)] =
                                                heap[RowObject(row)]]
                        /\ nodesToSubmit' =
                              [nodesToSubmit EXCEPT ![w] =
                                  [st |-> "upload", row |-> row,
                                   obj |-> CopyObject(w), files |-> files]]
                        /\ UNCHANGED payloads
    /\ UNCHANGED <<inputs, balanceVars, cancelVars, workerVars, answered,
                   orphanFinalizers, single, strictOld, nodeErrors, errorDetails,
                   pendingFiles, runType, mounted, hasStartedRef, status,
                   active, batchResult>>

\* await uploadFile(...) returns or throws. On return the file name is
\* written into the entry of nodesToSubmit that findIndex finds; after the
\* last file submitTask serialises nodesToSubmit. On a throw the job fails.
\* Either way the worker is followed again from the top of its loop.
UploadFileReturn(w, ok) ==
    /\ w \in DOMAIN nodesToSubmit
    /\ nodesToSubmit[w].st = "upload"
    /\ LET me == nodesToSubmit[w]
           f == Head(me.files)
           written == IF f <= MaxFields
                      THEN [heap EXCEPT ![me.obj][f] = "fileName"]
                      ELSE heap
       IN  IF ~ok
           THEN /\ nodesToSubmit' = [nodesToSubmit EXCEPT ![w] = IdleWorker]
                /\ heap' = Released(heap, w)
                /\ UNCHANGED payloads
           ELSE /\ heap' = IF Tail(me.files) = <<>> THEN Released(written, w)
                           ELSE written
                /\ IF Tail(me.files) = <<>>
                   THEN /\ nodesToSubmit' =
                              [nodesToSubmit EXCEPT ![w] = IdleWorker]
                        /\ payloads' =
                              [payloads EXCEPT ![me.row + 1] = written[me.obj]]
                   ELSE /\ nodesToSubmit' =
                              [nodesToSubmit EXCEPT ![w].files = Tail(me.files)]
                        /\ UNCHANGED payloads
    /\ UNCHANGED <<inputs, balanceVars, cancelVars, workerVars, answered,
                   orphanFinalizers, single, strictOld, nodeErrors, errorDetails,
                   pendingFiles, copyNext, runType, mounted, hasStartedRef,
                   status, active, batchResult>>

\* A batch of up to MaxRows rows with any pendingFiles keys for them, run
\* by the workers of one key.
CopyInit ==
    /\ totalTasks \in 1..MaxRows
    /\ apiConfigs \in RetryPools
    /\ Mounted
    /\ runType = "batch"
    /\ activeBatchList = OriginalList(totalTasks)
    /\ remoteScript = <<>>
    /\ answered = <<>>
    /\ orphanFinalizers = <<>>
    /\ single = "none"
    /\ strictOld = <<>>
    /\ nodeErrors = <<>>
    /\ errorDetails = <<>>
    /\ heap = [i \in 1..(totalTasks + NumWorkers) |->
                  IF i <= totalTasks THEN CallerRow ELSE <<>>]
    /\ pendingFiles \in SUBSET PendingKeys(totalTasks)
    /\ nodesToSubmit = [w \in Workers |-> IdleWorker]
    /\ copyNext = 0
    /\ payloads = [i \in 1..totalTasks |-> <<>>]

CopyNext ==
    \/ \E w \in Workers : ClaimRow(w)
    \/ \E w \in Workers : UploadFileReturn(w, TRUE)
    \/ \E w \in Workers : UploadFileReturn(w, FALSE)

CopySpec == CopyInit /\ [][CopyNext]_vars

\* ------------------------------------------------------------------- C30
\* C30: during and after a run every row of the caller's batch list holds
\* the values the caller gave it; a worker that has files to upload writes
\* into an array that is none of the caller's rows, and what is submitted
\* for a row carries the uploaded file names in the fields that had files.
C30_BatchListNeverMutated ==
    heap # <<>> =>
        /\ \A row \in 0..(totalTasks - 1) : heap[RowObject(row)] = CallerRow
        /\ \A w \in DOMAIN nodesToSubmit :
              nodesToSubmit[w].st = "upload" =>
                  nodesToSubmit[w].obj > totalTasks
        /\ \A row \in 0..(totalTasks - 1) :
              payloads[row + 1] # <<>> =>
                  payloads[row + 1] =
                      [f \in 1..MaxFields |->
                          IF <<row, f>> \in pendingFiles THEN "fileName"
                          ELSE "local"]

\* Every worker has returned, a row was submitted with an uploaded file
\* name in it, and that row of the caller's list is as it was.
C30_Witness ==
    /\ heap # <<>>
    /\ \A w \in DOMAIN nodesToSubmit : nodesToSubmit[w].st = "done"
    /\ \E row \in 0..(totalTasks - 1) :
          /\ payloads[row + 1] # <<>>
          /\ \E f \in 1..MaxFields : payloads[row + 1][f] = "fileName"
          /\ heap[RowObject(row)] = CallerRow

\* ------------------------------------------------------------------- C31
\* C31: indices are claimed in strictly ascending order: in the step that
\* hands out index j, every index handed out before is smaller than j and
\* every smaller index was handed out before, whichever worker takes it;
\* nothing orders the terminal reports.
C31_ClaimsAscend ==
    [][\A j \in Indices :
          handedTo'[j] # handedTo[j] =>
              /\ \A i \in Indices : handedTo[i] # <<>> <=> i < j
              /\ nextTaskIndex = j
              /\ nextTaskIndex' = j + 1]_vars

\* Index 0 was claimed before index 1 by another worker and index 1 reached
\* its terminal report first.
C31_Witness ==
    /\ totalTasks >= 2
    /\ handedTo[0] # <<>>
    /\ handedTo[1] # <<>>
    /\ handedTo[0] # handedTo[1]
    /\ outcomes[0] = <<>>
    /\ outcomes[1] # <<>>

\* ------------------------------------------------------------------- C32
\* C32: the failed-job list always has failedCountLocal entries, each the
\* index of a job that was handed out and reported as failed, no index
\* twice; and once every job is counted, completedCount is the number of
\* jobs reported as succeeded and the two counters add up to the batch.
C32_NoReportLost ==
    /\ Len(failedTasksLocal) = failedCountLocal
    /\ \A k \in DOMAIN failedTasksLocal :
          /\ failedTasksLocal[k] \in Indices
          /\ handedTo[failedTasksLocal[k]] # <<>>
          /\ outcomes[failedTasksLocal[k]] = <<"fail">>
          /\ \A m \in DOMAIN failedTasksLocal :
                failedTasksLocal[m] = failedTasksLocal[k] => m = k
    /\ Cardinality({i \in Indices : outcomes[i] = <<"fail">>}) = failedCountLocal
    /\ (Terminal >= totalTasks =>
            /\ completedCount = Cardinality(Succeeded)
            /\ completedCount = totalTasks - failedCountLocal)

\* Two workers reported failures, the later-claimed job first, a third job
\* succeeded, and every job is counted.
C32_Witness ==
    /\ totalTasks = 3
    /\ Terminal = totalTasks
    /\ completedCount = 1
    /\ Len(failedTasksLocal) = 2
    /\ failedTasksLocal[1] > failedTasksLocal[2]
    /\ handedTo[failedTasksLocal[1]] # handedTo[failedTasksLocal[2]]

\* ------------------------------------------------------------------- C33
\* C33: once a cancellation summary was delivered the run is inactive, and
\* from then on no index is handed to a worker.
C33_CancelDeactivates ==
    /\ [](cancelSummaries # <<>> => ~active)
    /\ [][cancelSummaries # <<>> => handedTo' = handedTo]_vars

\* ------------------------------------------------------------------- C34
\* C34: in the step that starts building a completion summary (a
\* checkAllDone call that finds every job counted) or that emits it, no
\* worker is in the decode or the save of a succeeded job.
C34_NoSummaryDuringSave ==
    [][(finalizers' > finalizers \/ completeCalls' > completeCalls) =>
          \A w \in Workers : pc'[w] \notin {"decode", "save"}]_vars

\* ------------------------------------------------------------------- C35
\* C35: when a pending callback of a replaced run comes back, it calls
\* nothing of the application: the result held by App and the view of the
\* run that replaced it stay as they are.
C35_OldRunIsSilent ==
    [][Len(orphanFinalizers') < Len(orphanFinalizers) =>
          /\ batchResult' = batchResult
          /\ runType' = runType]_vars

\* ------------------------------------------------------ StrictMode remount
\* React StrictMode runs the cleanup of the effect right after its first
\* setup, with the component still mounted: the active flag of that setup
\* becomes false and hasStartedRef.current is reset. The workers of the
\* setup stay suspended at the await they reached (strictOld); the state of
\* the closure is the state of the setup to come.
StrictCleanup ==
    /\ mounted
    /\ hasStartedRef
    /\ EffectDone
    /\ strictOld = <<>>
    /\ strictOld' = [w \in Workers |-> [pc |-> pc[w], task |-> task[w]]]
    /\ UNCHANGED <<inputs, answered, orphanFinalizers, single, detailVars>>
    /\ Remount

StrictInit ==
    /\ totalTasks \in 1..MaxRetryTasks
    /\ apiConfigs \in RetryPools
    /\ Mounted
    /\ FirstRun

\* Setup, cleanup, setup on one component, then the workers of the second
\* setup run; the run is neither left nor cancelled.
StrictNext ==
    \/ EffectStart
    \/ Spawn
    \/ StrictCleanup
    \/ \E w \in Workers : strictOld # <<>> /\ UploadReturn(w)
    \/ \E w \in Workers : strictOld # <<>> /\ SubmitReturn(w)
    \/ \E w \in Workers : strictOld # <<>> /\ PollReturn(w)
    \/ \E w \in Workers : strictOld # <<>> /\ PollWaitReturn(w)
    \/ \E w \in Workers : strictOld # <<>> /\ DecodeReturn(w)
    \/ \E w \in Workers : strictOld # <<>> /\ SaveReturn(w)
    \/ \E w \in Workers : strictOld # <<>> /\ DelayReturn(w)
    \/ strictOld # <<>> /\ FinalBalanceReturn

StrictSpec == StrictInit /\ [][StrictNext]_vars

\* submitTask was called for index i by a worker of the setup that was
\* cleaned up.
OldSubmitted(i) ==
    \E w \in DOMAIN strictOld :
        strictOld[w].task = i /\ strictOld[w].pc = "submit"

\* submitTask was called for index i by a worker of the present setup that
\* still holds the index.
NowSubmitted(i) ==
    \E w \in Workers :
        task[w] = i /\ pc[w] \in {"submit", "poll", "pollwait", "decode", "save"}

\* ------------------------------------------------------------------- C36
\* C36: after setup, cleanup, setup on one component the second setup
\* starts no worker, and no index is submitted both by a worker of the
\* first setup and by a worker of the second.
C36_StartGuardHolds ==
    /\ (strictOld # <<>> => spawned = 0)
    /\ \A i \in Indices : ~(OldSubmitted(i) /\ NowSubmitted(i))

\* ------------------------------------------------------------------- C37
\* C37: no await separates the setting and the clearing of taskLock, so the
\* lock is free in every state a caller can run in; and a worker returns
\* from runWorker only in a step in which the run is inactive or every
\* index was handed out.
C37_WorkerLeavesOnlyWhenExhausted ==
    /\ [](~taskLock)
    /\ [][\A w \in Workers :
            (pc[w] # "done" /\ pc'[w] = "done") =>
                \/ ~active
                \/ /\ nextTaskIndex >= totalTasks
                   /\ \A i \in Indices : handedTo[i] # <<>>]_vars

\* With two workers and three jobs, a worker found the queue exhausted and
\* returned while the run is active and the other worker is still busy.
C37_Witness ==
    /\ active
    /\ totalTasks = 3
    /\ NumWorkers >= 2
    /\ nextTaskIndex = totalTasks
    /\ \E w \in Workers : pc[w] = "done"
    /\ \E w \in Workers : pc[w] = "poll"

C39_BadPromptTipsFails ==
    [][\A w \in Workers :
          SubmitReturnWith(w, "badPromptTips") =>
              /\ pc'[w] \notin {"poll", "pollwait"}
              /\ active => (FailureRecorded(w) /\ pc'[w] = "delay")]_vars

\* The first job of a two-job batch was recorded as failed at its submit
\* return (as after an unparsable promptTips) and the same worker is
\* waiting for the submit return of the second.
C39_Witness ==
    /\ active
    /\ totalTasks = 2
    /\ NumWorkers = 1
    /\ failedTasksLocal = <<0>>
    /\ completedCount = 0
    /\ pc[1] = "submit"
    /\ task[1] = 1

====
